---- MODULE Spec2Model ----
(***************************************************************************)
(* Model of the nextmeet client code.                                      *)
(*                                                                         *)
(* Two independent parts share the module:                                 *)
(*                                                                         *)
(*  - the persistent rooms (rooms, room_activity, room_participants) as    *)
(*    the rooms panel, the notification bell and the video room page read  *)
(*    and write them, including the expiration sweep (RoomSpec);           *)
(*  - the 1:1 video chat client (VideoChat component) with its socket      *)
(*    handlers, talking through the matching/relay server (ChatSpec).      *)
(*                                                                         *)
(* Further specifications take the actions of one concern: the sweeps of   *)
(* several panels (SweepRaceSpec), the room page (PageSpec), the panels'   *)
(* change subscriptions (PanelSpec), the operations that start with a      *)
(* media capture (CaptureSpec), and a pairing left alone, with fairness    *)
(* (NegotiationSpec).                                                      *)
(*                                                                         *)
(* Time is counted in whole minutes.                                       *)
(***************************************************************************)
EXTENDS Integers, Sequences, FiniteSets, TLC

VARIABLES
    \* ---- rooms part -----------------------------------------------------
    clock,      \* the wall clock, in minutes
    rooms,      \* table rooms: room id -> row (status "none" = no row)
    activity,   \* table room_activity: room id -> row (present = FALSE: no row)
    parts,      \* table room_participants: room id -> user -> status
    sweep,      \* per rooms panel: the running cleanupExpiredRooms call
    page,       \* per user: the open video room page (room, isHost, participants)
    panel,      \* per rooms panel: state rooms (room id -> status last fetched)
    invites,    \* unread room_invite notifications, as <<room, user>>
    channel,    \* per rooms panel: its rooms_channel subscription
    \* ---- 1:1 chat part --------------------------------------------------
    isMatching, \* VideoChat state isMatching
    partnerId,  \* VideoChat state partnerId
    localStream,\* VideoChat state localStream (captured and not stopped)
    pcs,        \* per client: the RTCPeerConnection objects it has created
    pcRef,      \* peerConnectionRef.current: index into pcs, 0 = null
    outbox,     \* socket, client -> server, FIFO
    inbox,      \* socket, server -> client, FIFO
    pool,       \* server: the waiting pool
    pairings    \* server: the active pairings (sets of two client ids)

roomVars == <<clock, rooms, activity, parts, sweep, page, panel, invites,
              channel>>
chatVars == <<isMatching, partnerId, localStream, pcs, pcRef, outbox, inbox,
              pool, pairings>>
vars == <<clock, rooms, activity, parts, sweep, page, panel, invites, channel,
          isMatching, partnerId, localStream, pcs, pcRef, outbox, inbox,
          pool, pairings>>

(***************************************************************************)
(* Bounds                                                                  *)
(***************************************************************************)
MaxTime == 12        \* the clock stops here
MaxCreateTime == 0   \* rooms are created up to this time

MaxPC == 4           \* peer connections created, over all clients
MaxCand == 1         \* ICE candidates gathered, over all peer connections
MaxNotes == 2        \* change notifications waiting in one rooms_channel

(***************************************************************************)
(* Program constants                                                       *)
(***************************************************************************)
AbsoluteAgeMinutes == 10
IdleMinutes == 5

Users == {"u1", "u2"}
Hosts == {"u1"}      \* the users who create rooms
RoomIds == {1}       \* the ids generateUUID draws from
Sweepers == {"u1"}   \* the users whose panel's sweep timer runs, outside the race
Nil == -1
NoPassword == "null"
Passwords == {"", "pw", "bad"}

NoRoomRow == [status |-> "none", host |-> "u1", password |-> NoPassword,
              created_at |-> Nil, ended_at |-> Nil]
NoActivityRow == [present |-> FALSE, last_active |-> Nil, participant_count |-> 0]
IdleSweep == [pc |-> "idle", now |-> Nil, todo |-> <<>>]
NoPage == [room |-> 0, isHost |-> FALSE, participants |-> <<>>]
NoChannel == [subscribed |-> FALSE, pending |-> 0]
NullUser == "null"   \* useState<string | null>(null)

\* the ids the room page's handlers are called with: user ids and the id of
\* the local participant
LocalId == "local"
ParticipantIds == Users \cup {LocalId}

\* ascending sequence of the elements of a finite set of integers
RECURSIVE SetToSeq(_)
SetToSeq(S) ==
    IF S = {} THEN <<>>
    ELSE LET m == CHOOSE x \in S : \A y \in S : x <= y
         IN <<m>> \o SetToSeq(S \ {m})

RoomInit ==
    /\ clock = 0
    /\ rooms = [r \in RoomIds |-> NoRoomRow]
    /\ activity = [r \in RoomIds |-> NoActivityRow]
    /\ parts = [r \in RoomIds |-> [u \in Users |-> "none"]]
    /\ sweep = [u \in Users |-> IdleSweep]
    /\ page = [u \in Users |-> NoPage]
    /\ panel = [u \in Users |-> [r \in RoomIds |-> "none"]]
    /\ invites = {}
    /\ channel = [u \in Users |-> NoChannel]

\* the instants at which anything happens: the start, the idle limit and the
\* absolute limit, each with the minute after it, and the last minute
Instants == {0, IdleMinutes, IdleMinutes + 1, AbsoluteAgeMinutes,
             AbsoluteAgeMinutes + 1, MaxTime}

\* time passes, to the next instant
Tick ==
    /\ \E t \in Instants : t > clock
    /\ clock' = CHOOSE t \in Instants : t > clock /\ \A x \in Instants : x > clock => t <= x
    /\ UNCHANGED <<rooms, activity, parts, sweep, page, panel, invites, channel>>
    /\ UNCHANGED chatVars

\* the id generateUUID returns: one no room has
FreshRoomIds == {r \in RoomIds : rooms[r].status = "none"}

\* postgres_changes on table rooms: a written row is announced to every
\* subscribed rooms_channel
Publish == [u \in Users |->
              IF channel[u].subscribed
              THEN [channel[u] EXCEPT !.pending = @ + 1]
              ELSE channel[u]]

\* no channel is full
CanPublish == \A u \in Users : channel[u].pending < MaxNotes

\* createRoom without its third insert: the host gets no participant row
CreateRoomWithoutParticipant(u, pw, fail) ==
    /\ FreshRoomIds # {}
    /\ clock <= MaxCreateTime
    /\ CanPublish
    /\ channel' = IF fail = "room" THEN channel ELSE Publish
    /\ LET r == CHOOSE x \in FreshRoomIds : \A y \in FreshRoomIds : x <= y
           now == clock
       IN /\ rooms' = IF fail = "room" THEN rooms
                      ELSE [rooms EXCEPT ![r] =
                              [status |-> "waiting", host |-> u,
                               password |-> IF pw = "" THEN NoPassword ELSE pw,
                               created_at |-> now, ended_at |-> Nil]]
          /\ activity' = IF fail \in {"room", "activity"} THEN activity
                         ELSE [activity EXCEPT ![r] =
                                 [present |-> TRUE, last_active |-> now,
                                  participant_count |-> 1]]
          /\ parts' = parts
    /\ UNCHANGED <<clock, sweep, page, panel, invites>>
    /\ UNCHANGED chatVars

\* RoomsPanel.createRoom: three inserts, each of which may fail and end the call
CreateRoom(u, pw, fail) ==
    /\ FreshRoomIds # {}
    /\ clock <= MaxCreateTime
    /\ CanPublish
    /\ channel' = IF fail = "room" THEN channel ELSE Publish
    /\ LET r == CHOOSE x \in FreshRoomIds : \A y \in FreshRoomIds : x <= y
           now == clock
       IN /\ rooms' = IF fail = "room" THEN rooms
                      ELSE [rooms EXCEPT ![r] =
                              [status |-> "waiting", host |-> u,
                               password |-> IF pw = "" THEN NoPassword ELSE pw,
                               created_at |-> now, ended_at |-> Nil]]
          /\ activity' = IF fail \in {"room", "activity"} THEN activity
                         ELSE [activity EXCEPT ![r] =
                                 [present |-> TRUE, last_active |-> now,
                                  participant_count |-> 1]]
          /\ parts' = IF fail \in {"room", "activity", "participant"} THEN parts
                      ELSE [parts EXCEPT ![r][u] = "joined"]
    /\ UNCHANGED <<clock, sweep, page, panel, invites>>
    /\ UNCHANGED chatVars

\* a group member is invited to a room: a room_participants row with status
\* invited and a room_invite notification for the user
Invite(r, u) ==
    /\ rooms[r].status # "none"
    /\ parts[r][u] = "none"
    /\ parts' = [parts EXCEPT ![r][u] = "invited"]
    /\ invites' = invites \cup {<<r, u>>}
    /\ UNCHANGED <<clock, rooms, activity, sweep, page, panel, channel>>
    /\ UNCHANGED chatVars

\* RoomsPanel.fetchRooms: the panel's list becomes what the store holds
FetchRooms(u) ==
    /\ panel' = [panel EXCEPT ![u] = [r \in RoomIds |-> rooms[r].status]]
    /\ UNCHANGED <<clock, rooms, activity, parts, sweep, page, invites, channel>>
    /\ UNCHANGED chatVars

\* the list of RoomsPanel after a call of the fetchRooms that closes over
\* the given value of state currentUserId: without a user it returns at once
PanelAfterFetch(u, currentUserId) ==
    IF currentUserId = NullUser THEN panel
    ELSE [panel EXCEPT ![u] = [r \in RoomIds |-> rooms[r].status]]

\* currentUserId as the rooms_channel callback sees it: the callback is made
\* in the effect of the first render (dependencies []), where the state
\* currentUserId still has its initial value
SubscribedUserId(u) == NullUser

\* RoomsPanel initializePanel: the rooms are read for user.id and the
\* rooms_channel subscription is made
InitializePanel(u) ==
    /\ ~channel[u].subscribed
    /\ panel' = [panel EXCEPT ![u] = [r \in RoomIds |-> rooms[r].status]]
    /\ channel' = [channel EXCEPT ![u] = [subscribed |-> TRUE, pending |-> 0]]
    /\ UNCHANGED <<clock, rooms, activity, parts, sweep, page, invites>>
    /\ UNCHANGED chatVars

\* the rooms_channel callback, on a change notification: await fetchRooms()
OnRoomsChange(u) ==
    /\ channel[u].subscribed
    /\ channel[u].pending > 0
    /\ channel' = [channel EXCEPT ![u].pending = @ - 1]
    /\ panel' = PanelAfterFetch(u, SubscribedUserId(u))
    /\ UNCHANGED <<clock, rooms, activity, parts, sweep, page, invites>>
    /\ UNCHANGED chatVars

\* update room_participants set status = st where room_id = r and user_id = u
UpdateParticipant(r, u, st) ==
    IF parts[r][u] = "none" THEN parts ELSE [parts EXCEPT ![r][u] = st]

\* router.push(room.video_chat_url): the room page of r is mounted with its
\* initial state, unless it is the page the user is on already
RouterPush(u, r) ==
    IF page[u].room = r THEN page
    ELSE [page EXCEPT ![u] = [room |-> r, isHost |-> FALSE, participants |-> <<>>]]

\* a test of the password that lets every password through
PasswordRejectedNever(r, password) == FALSE

\* joinRoom's password test (room.password && room.password !== password)
PasswordRejected(r, password) ==
    rooms[r].password # NoPassword /\ rooms[r].password # password

\* RoomCard.handleJoin and RoomsPanel.joinRoom
PanelJoinRoom(u, r, password) ==
    /\ panel[u][r] \notin {"none", "ended"}
    /\ ~(rooms[r].password # NoPassword /\ password = "")
    /\ parts' = IF PasswordRejected(r, password) THEN parts
                ELSE UpdateParticipant(r, u, "joined")
    /\ page' = IF PasswordRejected(r, password) THEN page ELSE RouterPush(u, r)
    /\ UNCHANGED <<clock, rooms, activity, sweep, panel, invites, channel>>
    /\ UNCHANGED chatVars

\* Notifications.handleRoomInvite, action join or busy
HandleRoomInvite(u, r, action) ==
    /\ <<r, u>> \in invites
    /\ rooms[r].status # "none"
    /\ parts' = UpdateParticipant(r, u, IF action = "join" THEN "joined" ELSE "busy")
    /\ invites' = invites \ {<<r, u>>}
    /\ page' = IF action = "join" THEN RouterPush(u, r) ELSE page
    /\ UNCHANGED <<clock, rooms, activity, sweep, panel, channel>>
    /\ UNCHANGED chatVars

\* markAsBusy that also takes the participant off the room's count
MarkAsBusyDecrementing(u, r) ==
    /\ panel[u][r] # "none"
    /\ parts' = UpdateParticipant(r, u, "busy")
    /\ activity' = [activity EXCEPT ![r].participant_count = @ - 1]
    /\ UNCHANGED <<clock, rooms, sweep, page, panel, invites, channel>>
    /\ UNCHANGED chatVars

\* RoomsPanel.markAsBusy
MarkAsBusy(u, r) ==
    /\ panel[u][r] # "none"
    /\ parts' = UpdateParticipant(r, u, "busy")
    /\ UNCHANGED <<clock, rooms, activity, sweep, page, panel, invites, channel>>
    /\ UNCHANGED chatVars

\* update rooms set status = 'active' where id = r
UpdateRoomActive(r) ==
    IF rooms[r].status = "none" THEN rooms
    ELSE [rooms EXCEPT ![r].status = "active"]

\* initializeMediaDevices: the local participant, once the capture succeeded
LocalParticipant == [id |-> LocalId, isAudioOn |-> TRUE]

\* VideoRoomPage setupRoom: initializeMediaDevices, joinRoom, then
\* checkHostStatus; an error of one ends the call. fresh: the page component is
\* mounted anew (its state starts over); otherwise only the roomId parameter
\* changed and the component keeps its state.
PageJoinRoom(u, r, fresh, captureOk) ==
    /\ fresh \/ page[u].room \notin {0, r}
    /\ CanPublish
    /\ LET old == IF fresh THEN NoPage ELSE page[u]
       IN IF ~captureOk
          THEN \* "Failed to access camera and microphone"
               /\ page' = [page EXCEPT ![u] = [old EXCEPT !.room = r]]
               /\ UNCHANGED <<rooms, parts, channel>>
          ELSE IF parts[r][u] = "none"
          THEN \* "You do not have access to this room"
               /\ page' = [page EXCEPT ![u] =
                              [room |-> r, isHost |-> old.isHost,
                               participants |-> <<LocalParticipant>>]]
               /\ UNCHANGED <<rooms, parts, channel>>
          ELSE /\ rooms' = UpdateRoomActive(r)
               /\ channel' = Publish
               /\ parts' = UpdateParticipant(r, u, "joined")
               /\ page' = [page EXCEPT ![u] =
                              [room |-> r, isHost |-> rooms[r].host = u,
                               participants |-> <<LocalParticipant>>]]
    /\ UNCHANGED <<clock, activity, sweep, panel, invites>>
    /\ UNCHANGED chatVars

\* prev.filter(p => p.id !== userId)
WithoutParticipant(list, id) == SelectSeq(list, LAMBDA p : p.id # id)

\* a guard that lets every caller through
IsHostAlways(u) == TRUE

\* the guard of the host-only handlers: the page's isHost state
IsHost(u) == page[u].isHost

\* VideoRoomPage.handleKickParticipant. stored: the update reaches the store;
\* otherwise the awaited call resolves with an error, which is not looked at
HandleKickParticipant(u, target, stored) ==
    /\ page[u].room # 0
    /\ IsHost(u)
    /\ parts' = IF stored /\ target \in Users
                THEN UpdateParticipant(page[u].room, target, "kicked")
                ELSE parts
    /\ page' = [page EXCEPT ![u].participants =
                    WithoutParticipant(page[u].participants, target)]
    /\ UNCHANGED <<clock, rooms, activity, sweep, panel, invites, channel>>
    /\ UNCHANGED chatVars

\* prev.map(p => p.id === userId ? { ...p, isAudioOn: !p.isAudioOn } : p)
ToggleAudio(list, id) ==
    [i \in 1..Len(list) |->
        IF list[i].id = id THEN [list[i] EXCEPT !.isAudioOn = ~list[i].isAudioOn]
        ELSE list[i]]

\* VideoRoomPage.handleMuteParticipant
HandleMuteParticipant(u, target) ==
    /\ page[u].room # 0
    /\ IsHost(u)
    /\ \E i \in 1..Len(page[u].participants) : page[u].participants[i].id = target
    /\ page' = [page EXCEPT ![u].participants = ToggleAudio(page[u].participants, target)]
    /\ UNCHANGED <<clock, rooms, activity, parts, sweep, panel, invites, channel>>
    /\ UNCHANGED chatVars

\* the rows cleanupExpiredRooms selects: status waiting or active and
\* created_at < now - 10 minutes
RoomsToExpire(now) ==
    {r \in RoomIds : /\ rooms[r].status \in {"waiting", "active"}
                     /\ rooms[r].created_at < now - AbsoluteAgeMinutes}

\* the number of room_participants rows of r with status joined
JoinedCount(r) == Cardinality({u \in Users : parts[r][u] = "joined"})

\* lastActivity?.last_active, or room.created_at when there is none
LastActiveTime(r) ==
    IF activity[r].present THEN activity[r].last_active ELSE rooms[r].created_at

SweepPop(u) ==
    IF Len(sweep[u].todo) = 1 THEN IdleSweep
    ELSE [pc |-> "check", now |-> sweep[u].now, todo |-> Tail(sweep[u].todo)]

\* useInterval fires cleanupExpiredRooms: now is taken and the rooms are read
SweepStart(u) ==
    /\ sweep[u].pc = "idle"
    /\ LET todo == SetToSeq(RoomsToExpire(clock))
       IN sweep' = [sweep EXCEPT ![u] =
                      IF todo = <<>> THEN IdleSweep
                      ELSE [pc |-> "check", now |-> clock, todo |-> todo]]
    /\ UNCHANGED <<clock, rooms, activity, parts, page, panel, invites, channel>>
    /\ UNCHANGED chatVars

\* what cleanupExpiredRooms decides for a selected room from the joined
\* participants and last_active it reads
SweepDecides(r, now) ==
    /\ JoinedCount(r) <= 1
    /\ LastActiveTime(r) < now - IdleMinutes

\* cleanupExpiredRooms, for the next room: the joined participants and
\* last_active are read (room_activity is not written after createRoom, so the
\* two reads are one step)
SweepCheck(u) ==
    /\ sweep[u].pc = "check"
    /\ sweep' = [sweep EXCEPT ![u] =
                   IF SweepDecides(Head(sweep[u].todo), sweep[u].now)
                   THEN [sweep[u] EXCEPT !.pc = "write"]
                   ELSE SweepPop(u)]
    /\ UNCHANGED <<clock, rooms, activity, parts, page, panel, invites, channel>>
    /\ UNCHANGED chatVars

\* update rooms set status = 'ended', ended_at = now where id = r
UpdateRoomEnded(r, now) ==
    [rooms EXCEPT ![r].status = "ended", ![r].ended_at = now]

\* cleanupExpiredRooms: the room is written
SweepWrite(u) ==
    /\ sweep[u].pc = "write"
    /\ CanPublish
    /\ rooms' = UpdateRoomEnded(Head(sweep[u].todo), sweep[u].now)
    /\ channel' = Publish
    /\ sweep' = [sweep EXCEPT ![u] = SweepPop(u)]
    /\ UNCHANGED <<clock, activity, parts, page, panel, invites>>
    /\ UNCHANGED chatVars

\* RoomCard.getExpirationStatus, from the clock and the card's room
\* (lastActive is created_at when the room has no last_active)
ExpiresSoonMinutes == 8
GetExpirationStatus(now, createdAt, lastActive, participantCount) ==
    IF now - createdAt >= AbsoluteAgeMinutes THEN "Expired (>10min)"
    ELSE IF participantCount <= 1 /\ now - lastActive >= IdleMinutes
    THEN "Expired (inactive)"
    ELSE IF now - createdAt >= ExpiresSoonMinutes THEN "Expires soon"
    ELSE "null"

\* the card of room r, drawn now from what the store holds
CardStatus(r) ==
    GetExpirationStatus(clock, rooms[r].created_at, LastActiveTime(r), JoinedCount(r))

\* a cleanupExpiredRooms call running now sets room r to ended
SweepEnds(r) == r \in RoomsToExpire(clock) /\ SweepDecides(r, clock)

RoomNext ==
    \/ Tick
    \/ \E u \in Hosts, pw \in {"", "pw"},
          fail \in {"none", "room", "activity", "participant"} :
            CreateRoom(u, pw, fail)
    \/ \E r \in RoomIds, u \in Users : Invite(r, u)
    \/ \E u \in Users : FetchRooms(u)
    \/ \E u \in Users, r \in RoomIds, pw \in Passwords : PanelJoinRoom(u, r, pw)
    \/ \E u \in Users, r \in RoomIds, a \in {"join", "busy"} :
            HandleRoomInvite(u, r, a)
    \/ \E u \in Users, r \in RoomIds : MarkAsBusy(u, r)
    \/ \E u \in Users, r \in RoomIds, fresh \in BOOLEAN :
            PageJoinRoom(u, r, fresh, TRUE)
    \/ \E u \in Users, t \in Users : HandleKickParticipant(u, t, TRUE)
    \/ \E u \in Sweepers : SweepStart(u)
    \/ \E u \in Sweepers : SweepCheck(u)
    \/ \E u \in Sweepers : SweepWrite(u)

\* the room page with all its handlers and inputs, and the ways into it
PageNext ==
    \/ \E u \in Hosts, pw \in {"", "pw"},
          fail \in {"none", "room", "activity", "participant"} :
            CreateRoom(u, pw, fail)
    \/ \E r \in RoomIds, u \in Users : Invite(r, u)
    \/ \E u \in Users : FetchRooms(u)
    \/ \E u \in Users, r \in RoomIds, pw \in Passwords : PanelJoinRoom(u, r, pw)
    \/ \E u \in Users, r \in RoomIds, a \in {"join", "busy"} :
            HandleRoomInvite(u, r, a)
    \/ \E u \in Users, r \in RoomIds : MarkAsBusy(u, r)
    \/ \E u \in Users, r \in RoomIds, fresh \in BOOLEAN, captureOk \in BOOLEAN :
            PageJoinRoom(u, r, fresh, captureOk)
    \/ \E u \in Users, t \in ParticipantIds, stored \in BOOLEAN :
            HandleKickParticipant(u, t, stored)
    \/ \E u \in Users, t \in ParticipantIds : HandleMuteParticipant(u, t)

\* the sweeps of all the open panels, racing for the rooms of one host
SweepRaceNext ==
    \/ Tick
    \/ \E u \in Hosts, pw \in {"", "pw"},
          fail \in {"none", "room", "activity", "participant"} :
            CreateRoom(u, pw, fail)
    \/ \E r \in RoomIds, u \in Users : Invite(r, u)
    \/ \E u \in Users, r \in RoomIds, a \in {"join", "busy"} :
            HandleRoomInvite(u, r, a)
    \/ \E u \in Users, r \in RoomIds, fresh \in BOOLEAN :
            PageJoinRoom(u, r, fresh, TRUE)
    \/ \E u \in Users : SweepStart(u)
    \/ \E u \in Users : SweepCheck(u)
    \/ \E u \in Users : SweepWrite(u)

\* the rooms panels with their subscriptions to the changes of table rooms
PanelNext ==
    \/ \E u \in Hosts, pw \in {"", "pw"},
          fail \in {"none", "room", "activity", "participant"} :
            CreateRoom(u, pw, fail)
    \/ \E r \in RoomIds, u \in Users : Invite(r, u)
    \/ \E u \in Users : InitializePanel(u)
    \/ \E u \in Users : FetchRooms(u)
    \/ \E u \in Users : OnRoomsChange(u)
    \/ \E u \in Users, r \in RoomIds, a \in {"join", "busy"} :
            HandleRoomInvite(u, r, a)
    \/ \E u \in Users, r \in RoomIds, fresh \in BOOLEAN :
            PageJoinRoom(u, r, fresh, TRUE)

(***************************************************************************)
(* 1:1 video chat                                                          *)
(***************************************************************************)
\* socket ids, as sequences of character codes
Clients == {<<1>>, <<1, 2>>, <<2>>}
NoPartner == <<>>

\* JavaScript's a < b on strings: lexicographic, a proper prefix is smaller
RECURSIVE StrLess(_, _)
StrLess(a, b) ==
    IF b = <<>> THEN FALSE
    ELSE IF a = <<>> THEN TRUE
    ELSE IF Head(a) # Head(b) THEN Head(a) < Head(b)
    ELSE StrLess(Tail(a), Tail(b))

NoCand == [pc |-> 0, n |-> 0]
Msg(type, peer, cand) == [type |-> type, peer |-> peer, cand |-> cand]

\* new RTCPeerConnection(ICE_SERVERS), its onicecandidate closing over partner
NewPC(partner) ==
    [partner |-> partner, sig |-> "stable", local |-> FALSE, remote |-> FALSE,
     offered |-> <<>>, cands |-> <<>>, sent |-> 0]

ChatInit ==
    /\ isMatching = [c \in Clients |-> FALSE]
    /\ partnerId = [c \in Clients |-> NoPartner]
    /\ localStream = [c \in Clients |-> FALSE]
    /\ pcs = [c \in Clients |-> <<>>]
    /\ pcRef = [c \in Clients |-> 0]
    /\ outbox = [c \in Clients |-> <<>>]
    /\ inbox = [c \in Clients |-> <<>>]
    /\ pool = <<>>
    /\ pairings = {}

Init == RoomInit /\ ChatInit

\* socket.emit: the message joins the client's FIFO to the server
Emit(ob, c, msgs) == [ob EXCEPT ![c] = ob[c] \o msgs]

WaitingMsg == Msg("waiting", NoPartner, NoCand)

\* the server takes a message as soon as it is emitted: a client acts when no
\* message is on its way to the server
Quiet == \A c \in Clients : outbox[c] = <<>>

RECURSIVE SumOver(_, _)
SumOver(S, f) ==
    IF S = {} THEN 0
    ELSE LET x == CHOOSE y \in S : TRUE IN f[x] + SumOver(S \ {x}, f)

\* what bounds the peer connections client c can still come to create: those
\* it has, the matches on their way to it and its requests to be matched
Potential(c) ==
    Len(pcs[c])
    + Cardinality({i \in 1..Len(inbox[c]) : inbox[c][i].type = "match-found"})
    + Cardinality({i \in 1..Len(pool) : pool[i] = c})
    + Cardinality({i \in 1..Len(outbox[c]) : outbox[c][i].type = "waiting"})

TotalPotential == SumOver(Clients, [c \in Clients |-> Potential(c)])

\* the candidates gathered so far
TotalSent ==
    SumOver(Clients, [c \in Clients |->
        SumOver(1..Len(pcs[c]), [i \in 1..Len(pcs[c]) |-> pcs[c][i].sent])])

\* a startChat that asks to be matched whether or not the capture succeeded
StartChatEmittingAnyway(c, captureOk) ==
    /\ Quiet
    /\ ~isMatching[c]
    /\ TotalPotential < MaxPC
    /\ localStream' = [localStream EXCEPT ![c] = captureOk]
    /\ isMatching' = [isMatching EXCEPT ![c] = TRUE]
    /\ outbox' = Emit(outbox, c, <<WaitingMsg>>)
    /\ UNCHANGED <<partnerId, pcs, pcRef, inbox, pool, pairings>>
    /\ UNCHANGED roomVars

\* VideoChat.startChat; the start button shows while isMatching is false
StartChat(c, captureOk) ==
    /\ Quiet
    /\ ~isMatching[c]
    /\ TotalPotential < MaxPC
    /\ IF captureOk
         THEN /\ localStream' = [localStream EXCEPT ![c] = TRUE]
              /\ isMatching' = [isMatching EXCEPT ![c] = TRUE]
              /\ outbox' = Emit(outbox, c, <<WaitingMsg>>)
         ELSE UNCHANGED <<localStream, isMatching, outbox>>
    /\ UNCHANGED <<partnerId, pcs, pcRef, inbox, pool, pairings>>
    /\ UNCHANGED roomVars

\* VideoChat.startSearching: the capture goes to localStreamRef and isWaiting
\* is set; isMatching is not touched. The component has no call of it.
StartSearching(c, captureOk) ==
    /\ Quiet
    /\ TotalPotential < MaxPC
    /\ IF captureOk
         THEN /\ localStream' = [localStream EXCEPT ![c] = TRUE]
              /\ outbox' = Emit(outbox, c, <<WaitingMsg>>)
         ELSE UNCHANGED <<localStream, outbox>>
    /\ UNCHANGED <<isMatching, partnerId, pcs, pcRef, inbox, pool, pairings>>
    /\ UNCHANGED roomVars

\* VideoChat.skipPartner; the controls show while isMatching is true
SkipPartner(c) ==
    /\ Quiet
    /\ isMatching[c]
    /\ TotalPotential < MaxPC
    /\ partnerId' = [partnerId EXCEPT ![c] = NoPartner]
    /\ outbox' = Emit(outbox, c, <<WaitingMsg>>)
    /\ UNCHANGED <<isMatching, localStream, pcs, pcRef, inbox, pool, pairings>>
    /\ UNCHANGED roomVars

\* VideoChat.reportUser
ReportUser(c) ==
    /\ Quiet
    /\ isMatching[c]
    /\ TotalPotential < MaxPC
    /\ partnerId[c] # NoPartner
    /\ partnerId' = [partnerId EXCEPT ![c] = NoPartner]
    /\ outbox' = Emit(outbox, c, <<Msg("report", partnerId[c], NoCand), WaitingMsg>>)
    /\ UNCHANGED <<isMatching, localStream, pcs, pcRef, inbox, pool, pairings>>
    /\ UNCHANGED roomVars

\* RTCPeerConnection.close()
ClosePC(pc) == [pc EXCEPT !.sig = "closed"]

\* VideoChat.cleanup: the referenced peer connection is closed and dropped
Cleanup(c) ==
    IF pcRef[c] = 0 THEN pcs
    ELSE [pcs EXCEPT ![c][pcRef[c]] = ClosePC(pcs[c][pcRef[c]])]

\* VideoChat.endChat
EndChat(c) ==
    /\ Quiet
    /\ isMatching[c]
    /\ localStream' = [localStream EXCEPT ![c] = FALSE]
    /\ partnerId' = [partnerId EXCEPT ![c] = NoPartner]
    /\ isMatching' = [isMatching EXCEPT ![c] = FALSE]
    /\ pcs' = Cleanup(c)
    /\ pcRef' = [pcRef EXCEPT ![c] = 0]
    /\ UNCHANGED <<outbox, inbox, pool, pairings>>
    /\ UNCHANGED roomVars

\* a slip in the initiator rule: the comparison the other way round
IsInitiatorReversed(self, partner) == StrLess(partner, self)

\* the initiator rule of handleMatchFound: socketRef.current.id < partnerId
IsInitiator(self, partner) == StrLess(self, partner)

\* createOffer and setLocalDescription(offer) on a new peer connection
WithLocalOffer(pc) == [pc EXCEPT !.sig = "have-local-offer", !.local = TRUE]

\* socket 'match-found': VideoChat.handleMatchFound
HandleMatchFound(c) ==
    /\ Quiet
    /\ inbox[c] # <<>>
    /\ Head(inbox[c]).type = "match-found"
    /\ LET p == Head(inbox[c]).peer
           initiator == IsInitiator(c, p)
           pc == IF initiator THEN WithLocalOffer(NewPC(p)) ELSE NewPC(p)
       IN /\ partnerId' = [partnerId EXCEPT ![c] = p]
          /\ isMatching' = [isMatching EXCEPT ![c] = FALSE]
          /\ pcs' = [pcs EXCEPT ![c] = Append(pcs[c], pc)]
          /\ pcRef' = [pcRef EXCEPT ![c] = Len(pcs[c]) + 1]
          /\ outbox' = IF initiator
                       THEN Emit(outbox, c, <<Msg("offer", p, NoCand)>>)
                       ELSE outbox
    /\ inbox' = [inbox EXCEPT ![c] = Tail(inbox[c])]
    /\ UNCHANGED <<localStream, pool, pairings>>
    /\ UNCHANGED roomVars

\* an answerer that never applies the offer it answers
WithAnswerWithoutRemote(pc) ==
    [pc EXCEPT !.sig = "stable", !.local = TRUE]

\* setRemoteDescription(offer), createAnswer, setLocalDescription(answer)
WithAnswer(pc) ==
    [pc EXCEPT !.sig = "stable", !.local = TRUE, !.remote = TRUE]

\* socket 'offer': VideoChat.handleOffer. An offer for a peer connection that
\* has a local offer pending is rolled back to or refused, as the browser has it.
HandleOffer(c, rollback) ==
    /\ Quiet
    /\ inbox[c] # <<>>
    /\ Head(inbox[c]).type = "offer"
    /\ LET from == Head(inbox[c]).peer
           i == pcRef[c]
           accepted == /\ i # 0
                       /\ \/ pcs[c][i].sig = "stable"
                          \/ pcs[c][i].sig = "have-local-offer" /\ rollback
       IN /\ pcs' = IF accepted
                    THEN [pcs EXCEPT ![c][i] = WithAnswer(pcs[c][i])]
                    ELSE pcs
          /\ outbox' = IF accepted
                       THEN Emit(outbox, c, <<Msg("answer", from, NoCand)>>)
                       ELSE outbox
    /\ inbox' = [inbox EXCEPT ![c] = Tail(inbox[c])]
    /\ UNCHANGED <<isMatching, partnerId, localStream, pcRef, pool, pairings>>
    /\ UNCHANGED roomVars

\* socket 'answer': VideoChat.handleAnswer; setRemoteDescription(answer) takes
\* effect on a peer connection with a local offer pending and fails otherwise
HandleAnswer(c) ==
    /\ Quiet
    /\ inbox[c] # <<>>
    /\ Head(inbox[c]).type = "answer"
    /\ LET i == pcRef[c]
       IN pcs' = IF i # 0 /\ pcs[c][i].sig = "have-local-offer"
                 THEN [pcs EXCEPT ![c][i].sig = "stable", ![c][i].remote = TRUE]
                 ELSE pcs
    /\ inbox' = [inbox EXCEPT ![c] = Tail(inbox[c])]
    /\ UNCHANGED <<isMatching, partnerId, localStream, pcRef, outbox, pool, pairings>>
    /\ UNCHANGED roomVars

\* RTCPeerConnection.addIceCandidate: the call is made (offered); the candidate
\* is taken when a remote description is set and the call fails otherwise
AddIceCandidate(pc, cand) ==
    [pc EXCEPT !.offered = Append(pc.offered, cand),
               !.cands = IF pc.remote THEN Append(pc.cands, cand) ELSE pc.cands]

\* socket 'ice-candidate': VideoChat.handleIceCandidate
HandleIceCandidate(c) ==
    /\ Quiet
    /\ inbox[c] # <<>>
    /\ Head(inbox[c]).type = "ice-candidate"
    /\ LET i == pcRef[c]
       IN pcs' = IF i # 0
                 THEN [pcs EXCEPT ![c][i] = AddIceCandidate(pcs[c][i], Head(inbox[c]).cand)]
                 ELSE pcs
    /\ inbox' = [inbox EXCEPT ![c] = Tail(inbox[c])]
    /\ UNCHANGED <<isMatching, partnerId, localStream, pcRef, outbox, pool, pairings>>
    /\ UNCHANGED roomVars

\* onicecandidate of peer connection i of client c: a gathered candidate is
\* sent to the partner the connection was created for
OnIceCandidate(c, i) ==
    /\ Quiet
    /\ i \in 1..Len(pcs[c])
    /\ pcs[c][i].sig # "closed"
    /\ pcs[c][i].local
    /\ TotalSent < MaxCand
    /\ pcs' = [pcs EXCEPT ![c][i].sent = pcs[c][i].sent + 1]
    /\ outbox' = Emit(outbox, c,
                      <<Msg("ice-candidate", pcs[c][i].partner,
                            [pc |-> i, n |-> pcs[c][i].sent + 1])>>)
    /\ UNCHANGED <<isMatching, partnerId, localStream, pcRef, inbox, pool, pairings>>
    /\ UNCHANGED roomVars

(***************************************************************************)
(* The matching coordinator and signaling relay (the socket server)        *)
(***************************************************************************)
PairingOf(c) == {q \in pairings : c \in q}

\* enqueue: AlreadyWaiting when c waits; else c's pairing ends, and c is paired
\* with the first waiting candidate (all filters are empty) or waits
ServerWaiting(c) ==
    IF \E i \in 1..Len(pool) : pool[i] = c
    THEN UNCHANGED <<pool, pairings, inbox>>
    ELSE IF pool = <<>>
    THEN /\ pool' = <<c>>
         /\ pairings' = pairings \ PairingOf(c)
         /\ UNCHANGED inbox
    ELSE LET p == Head(pool)
         IN /\ pool' = Tail(pool)
            /\ pairings' = (pairings \ PairingOf(c)) \cup {{c, p}}
            /\ inbox' = [inbox EXCEPT
                            ![c] = Append(inbox[c], Msg("match-found", p, NoCand)),
                            ![p] = Append(inbox[p], Msg("match-found", c, NoCand))]

\* relay(type, payload, fromId, toId): delivered with from set by the relay
\* when the two are paired, dropped otherwise
ServerRelay(c, m) ==
    /\ inbox' = IF {c, m.peer} \in pairings
                THEN [inbox EXCEPT ![m.peer] = Append(inbox[m.peer], Msg(m.type, c, m.cand))]
                ELSE inbox
    /\ UNCHANGED <<pool, pairings>>

\* the server takes the next message of client c
ServerRecv(c) ==
    /\ outbox[c] # <<>>
    /\ LET m == Head(outbox[c])
       IN CASE m.type = "waiting" -> ServerWaiting(c)
            [] m.type = "report" -> UNCHANGED <<pool, pairings, inbox>>
            [] OTHER -> ServerRelay(c, m)
    /\ outbox' = [outbox EXCEPT ![c] = Tail(outbox[c])]
    /\ UNCHANGED <<isMatching, partnerId, localStream, pcs, pcRef>>
    /\ UNCHANGED roomVars

ChatNext ==
    \/ \E c \in Clients, ok \in BOOLEAN : StartChat(c, ok)
    \/ \E c \in Clients : SkipPartner(c)
    \/ \E c \in Clients : ReportUser(c)
    \/ \E c \in Clients : EndChat(c)
    \/ \E c \in Clients : HandleMatchFound(c)
    \/ \E c \in Clients, rollback \in BOOLEAN : HandleOffer(c, rollback)
    \/ \E c \in Clients : HandleAnswer(c)
    \/ \E c \in Clients : HandleIceCandidate(c)
    \/ \E c \in Clients, i \in 1..MaxPC : OnIceCandidate(c, i)
    \/ \E c \in Clients : ServerRecv(c)

\* startChat by a user who has not been matched yet
FirstStart(c, captureOk) ==
    /\ partnerId[c] = NoPartner
    /\ StartChat(c, captureOk)

\* a pairing left alone: the users start their first search and then touch
\* nothing (no skip, report or end, no second start)
NegotiationNext ==
    \/ \E c \in Clients, ok \in BOOLEAN : FirstStart(c, ok)
    \/ \E c \in Clients : HandleMatchFound(c)
    \/ \E c \in Clients, rollback \in BOOLEAN : HandleOffer(c, rollback)
    \/ \E c \in Clients : HandleAnswer(c)
    \/ \E c \in Clients : HandleIceCandidate(c)
    \/ \E c \in Clients, i \in 1..MaxPC : OnIceCandidate(c, i)
    \/ \E c \in Clients : ServerRecv(c)

\* the socket delivers every message and every delivered message is handled
NegotiationFairness ==
    \A c \in Clients :
        /\ WF_vars(ServerRecv(c))
        /\ WF_vars(HandleMatchFound(c))
        /\ WF_vars(\E rollback \in BOOLEAN : HandleOffer(c, rollback))
        /\ WF_vars(HandleAnswer(c))
        /\ WF_vars(HandleIceCandidate(c))

\* the operations that begin with a media capture: the two ways to ask for a
\* 1:1 match and the set-up of the room page, with what they need to run
CaptureNext ==
    \/ \E c \in Clients, ok \in BOOLEAN : StartChat(c, ok)
    \/ \E c \in Clients, ok \in BOOLEAN : StartSearching(c, ok)
    \/ \E c \in Clients : ServerRecv(c)
    \/ \E u \in Hosts, pw \in {"", "pw"},
          fail \in {"none", "room", "activity", "participant"} :
            CreateRoom(u, pw, fail)
    \/ \E r \in RoomIds, u \in Users : Invite(r, u)
    \/ \E u \in Users, r \in RoomIds, fresh \in BOOLEAN, captureOk \in BOOLEAN :
            PageJoinRoom(u, r, fresh, captureOk)

RoomSpec == Init /\ [][RoomNext]_vars

SweepRaceSpec == Init /\ [][SweepRaceNext]_vars

PageSpec == Init /\ [][PageNext]_vars
PanelSpec == Init /\ [][PanelNext]_vars

ChatSpec == Init /\ [][ChatNext]_vars
CaptureSpec == Init /\ [][CaptureNext]_vars
NegotiationSpec == Init /\ [][NegotiationNext]_vars /\ NegotiationFairness

(***************************************************************************)
(* Properties                                                              *)
(***************************************************************************)
Range(q) == {q[i] : i \in 1..Len(q)}

\* the messages client c emits in a step
Emitted(c) ==
    IF Len(outbox'[c]) > Len(outbox[c])
    THEN SubSeq(outbox'[c], Len(outbox[c]) + 1, Len(outbox'[c]))
    ELSE <<>>

\* client c takes an offer, an answer or a candidate from its socket
HandlesRelayed(c) ==
    \/ \E rollback \in BOOLEAN : HandleOffer(c, rollback)
    \/ HandleAnswer(c)
    \/ HandleIceCandidate(c)

\* C1: a client is in at most one active pairing, and a match-found is taken
\* only by a client that is waiting (isMatching) and has no partner.
C1_MatchOnlyWhenWaiting ==
    /\ [](\A c \in Clients : Cardinality(PairingOf(c)) <= 1)
    /\ [][\A c \in Clients :
            HandleMatchFound(c) => isMatching[c] /\ partnerId[c] = NoPartner]_vars

\* C2: of two paired clients exactly one is the initiator, the one with the
\* smaller id: a client that takes match-found creates and emits one offer to
\* its partner when its id is the smaller and none otherwise, and no offer is
\* emitted in any other way.
C2_SmallerIdOffers ==
    /\ [](\A q \in pairings : \A a \in q, b \in q :
            a # b => (IsInitiator(a, b) <=> ~IsInitiator(b, a)))
    /\ [][\A c \in Clients :
            LET offers == {i \in 1..Len(Emitted(c)) : Emitted(c)[i].type = "offer"}
            IN IF HandleMatchFound(c)
               THEN LET p == Head(inbox[c]).peer
                    IN IF StrLess(c, p)
                       THEN /\ Cardinality(offers) = 1
                            /\ \A i \in offers : Emitted(c)[i].peer = p
                            /\ pcs'[c][pcRef'[c]].sig = "have-local-offer"
                       ELSE /\ offers = {}
                            /\ pcs'[c][pcRef'[c]].sig = "stable"
               ELSE offers = {}]_vars

\* C2 witness: both clients of a pairing have taken match-found, the smaller
\* one holds its local offer and the other has received and answered it
C2_Witness ==
    \E c \in Clients, p \in Clients :
        /\ {c, p} \in pairings
        /\ StrLess(c, p)
        /\ partnerId[c] = p /\ partnerId[p] = c
        /\ pcRef[c] # 0 /\ pcRef[p] # 0
        /\ pcs[c][pcRef[c]].sig = "have-local-offer"
        /\ pcs[p][pcRef[p]].remote

\* C3: the candidates a peer connection was handed before its remote
\* description was set are applied, in receipt order, once it is set: a
\* connection whose remote description is set has applied every candidate it
\* was handed.
C3_CandidatesAppliedInOrder ==
    \A c \in Clients : \A i \in 1..Len(pcs[c]) :
        (pcs[c][i].sig # "closed" /\ pcs[c][i].remote)
            => pcs[c][i].cands = pcs[c][i].offered

\* C4: a client that has skipped and is waiting (isMatching, no partner)
\* discards every offer, answer and candidate: no peer connection changes, no
\* message is emitted and the client stays waiting.
C4_StaleDiscardedAfterSkip ==
    [][\A c \in Clients :
          (isMatching[c] /\ partnerId[c] = NoPartner /\ HandlesRelayed(c))
              => /\ pcs'[c] = pcs[c]
                 /\ Emitted(c) = <<>>
                 /\ isMatching'[c] /\ partnerId'[c] = NoPartner]_vars

\* C5: a relayed message whose from id is not the client's partner id is
\* discarded, and an answer goes to the client's partner only.
C5_FromCheckedOnReceipt ==
    [][\A c \in Clients :
          /\ (HandlesRelayed(c) /\ Head(inbox[c]).peer # partnerId[c])
                => pcs'[c] = pcs[c] /\ Emitted(c) = <<>>
          /\ \A i \in 1..Len(Emitted(c)) :
                Emitted(c)[i].type = "answer" => Emitted(c)[i].peer = partnerId[c]]_vars

StatusRank(st) ==
    CASE st = "none" -> 0 [] st = "waiting" -> 1 [] st = "active" -> 2
      [] st = "ended" -> 3

\* C6: a room's status never moves backward along waiting, active, ended.
C6_StatusOnlyForward ==
    [][\A r \in RoomIds :
          StatusRank(rooms'[r].status) >= StatusRank(rooms[r].status)]_vars

\* the sweep of panel u leaves the room it is examining as it is
SweepSkips(u) ==
    /\ sweep[u].pc = "check"
    /\ sweep'[u] = SweepPop(u)

Live(r) == rooms[r].status \in {"waiting", "active"}

\* C7: a sweep that examines a waiting or active room whose age, at the
\* sweep's now, is at least 10 minutes ends it whatever its joined participants
\* and last_active: it does not leave the room as it is.
C7_AbsoluteAgeAlwaysEnds ==
    [][\A u \in Users :
          ~(/\ SweepSkips(u)
            /\ Live(Head(sweep[u].todo))
            /\ sweep[u].now - rooms[Head(sweep[u].todo)].created_at
                    >= AbsoluteAgeMinutes)]_vars

\* C8: a sweep ends every waiting or active room with at most one joined
\* participant whose last_active is at least 5 minutes old, also when the
\* room is younger than 10 minutes: a sweep that starts selects every such room.
C8_IdleRoomEnds ==
    \A r \in RoomIds :
        (/\ Live(r)
         /\ JoinedCount(r) <= 1
         /\ clock - LastActiveTime(r) >= IdleMinutes)
            => r \in RoomsToExpire(clock)

\* only the host has joined room r
SoloRoom(r) == \A x \in Users \ {rooms[r].host} : parts[r][x] # "joined"

\* C9: a room that only its host has joined is ended by the first sweep that
\* runs when the room is at least 10 minutes old: a sweep that starts then
\* selects the room, and a sweep that has selected it does not leave it as it is.
C9_SoloRoomEndsAtTen ==
    /\ [](\A r \in RoomIds :
            (/\ Live(r)
             /\ SoloRoom(r)
             /\ clock - rooms[r].created_at >= AbsoluteAgeMinutes)
                => r \in RoomsToExpire(clock))
    /\ [][\A u \in Users :
            ~(/\ SweepSkips(u)
              /\ Live(Head(sweep[u].todo))
              /\ SoloRoom(Head(sweep[u].todo)))]_vars

\* C10: a sweep step leaves a room that has status ended as it is, status and
\* ended_at.
C10_SweepLeavesEndedRooms ==
    [][\A u \in Users : \A r \in RoomIds :
          (SweepWrite(u) /\ rooms[r].status = "ended") => rooms'[r] = rooms[r]]_vars

\* C11: joinRoom from the rooms panel with a password that differs from the
\* password of a protected room leaves the room's participant rows and
\* activity row as they are and does not send the caller to the room page.
C11_WrongPasswordChangesNothing ==
    [][\A u \in Users, r \in RoomIds, pw \in Passwords :
          (/\ PanelJoinRoom(u, r, pw)
           /\ rooms[r].password # NoPassword
           /\ pw # rooms[r].password)
              => /\ parts'[r] = parts[r]
                 /\ activity'[r] = activity[r]
                 /\ page'[u] = page[u]]_vars

\* C11 witness: an invited user, not on the room page, whose panel lists a
\* protected room: a join with another password than the room's can be tried,
\* and one with the room's password would change the row and the page
C11_Witness ==
    \E u \in Users, r \in RoomIds :
        /\ panel[u][r] \notin {"none", "ended"}
        /\ rooms[r].password \notin {NoPassword, "bad"}
        /\ parts[r][u] = "invited"
        /\ page[u].room # r

\* C12: joinRoom from the rooms panel on a room whose stored status is ended
\* fails, also when the panel's list is older than the room's end: it sets no
\* participant of the room to joined.
C12_NoJoinOfEndedRoom ==
    [][\A u \in Users, r \in RoomIds, pw \in Passwords :
          (PanelJoinRoom(u, r, pw) /\ rooms[r].status = "ended")
              => parts'[r] = parts[r]]_vars

\* C13: a joinRoom from the rooms panel that passes the password test leaves
\* the caller's participant row with status joined, creating it when there was
\* none, and updates the room's activity row: last_active becomes the time of
\* the join and participant_count grows by one for a user who was not joined.
C13_JoinUpsertsAndBumpsActivity ==
    [][\A u \in Users, r \in RoomIds, pw \in Passwords :
          (/\ PanelJoinRoom(u, r, pw)
           /\ rooms[r].password \in {NoPassword, pw})
              => /\ parts'[r][u] = "joined"
                 /\ activity'[r].last_active = clock
                 /\ parts[r][u] # "joined" =>
                        activity'[r].participant_count
                            = activity[r].participant_count + 1]_vars

\* C14: kick and mute are host-only: a kick or mute handler called by a user
\* who is not the host of the page's room changes no participant row and
\* nothing of the page (participant list, audio flags).
C14_KickMuteHostOnly ==
    [][\A u \in Users, t \in ParticipantIds :
          (/\ \/ \E stored \in BOOLEAN : HandleKickParticipant(u, t, stored)
              \/ HandleMuteParticipant(u, t)
           /\ rooms[page[u].room].host # u)
              => parts' = parts /\ page' = page]_vars

\* C14 witness: a user who is not the host is on the room page with its local
\* participant listed, and the room has a joined participant to kick
C14_Witness ==
    \E u \in Users :
        /\ page[u].room # 0
        /\ rooms[page[u].room].host # u
        /\ page[u].participants # <<>>
        /\ \E t \in Users : parts[page[u].room][t] = "joined"

\* C15: a successful createRoom by host u leaves exactly one new room, with
\* status waiting and host_id u, one room_activity row for it with
\* participant_count 1 and last_active equal to the room's created_at, and one
\* room_participants row of the room, the host's, with status joined; the rows
\* of every other room are as before.
C15_CreateRoomRows ==
    [][\A u \in Users, pw \in Passwords :
          CreateRoom(u, pw, "none")
              => \E r \in RoomIds :
                    /\ rooms[r].status = "none"
                    /\ rooms'[r].status = "waiting"
                    /\ rooms'[r].host = u
                    /\ rooms'[r].created_at = clock
                    /\ activity'[r] = [present |-> TRUE,
                                       last_active |-> rooms'[r].created_at,
                                       participant_count |-> 1]
                    /\ parts'[r] = [x \in Users |->
                                       IF x = u THEN "joined" ELSE "none"]
                    /\ \A q \in RoomIds \ {r} :
                          /\ rooms'[q] = rooms[q]
                          /\ activity'[q] = activity[q]
                          /\ parts'[q] = parts[q]]_vars

\* C15 witness: the state a successful createRoom leaves
C15_Witness ==
    \E r \in RoomIds :
        /\ rooms[r].status = "waiting"
        /\ activity[r].present
        /\ activity[r].participant_count = 1
        /\ activity[r].last_active = rooms[r].created_at
        /\ parts[r][rooms[r].host] = "joined"
        /\ \A x \in Users \ {rooms[r].host} : parts[r][x] = "none"

\* C16: markAsBusy of room r by user u sets u's participant row of r to busy
\* and leaves everything else as it was: the room_activity rows
\* (participant_count, last_active), the rooms (status), and every other
\* participant row.
C16_MarkBusyFrame ==
    [][\A u \in Users, r \in RoomIds :
          MarkAsBusy(u, r)
              => /\ parts[r][u] # "none" => parts'[r][u] = "busy"
                 /\ activity' = activity
                 /\ rooms' = rooms
                 /\ \A q \in RoomIds, x \in Users :
                       <<q, x>> # <<r, u>> => parts'[q][x] = parts[q][x]]_vars

\* C16 witness: a joined participant of a room with an activity row has its
\* panel showing the room, so that markAsBusy changes its row
C16_Witness ==
    \E u \in Users, r \in RoomIds :
        /\ panel[u][r] # "none"
        /\ parts[r][u] = "joined"
        /\ activity[r].present
        /\ activity[r].participant_count >= 1

\* C17: skip tears the current transport down and re-enqueues the client:
\* after skipPartner the client has no partner id, the peer connection it
\* referenced is closed and no longer referenced, and exactly one waiting
\* message has been emitted.
C17_SkipTearsDown ==
    [][\A c \in Clients :
          SkipPartner(c)
              => /\ partnerId'[c] = NoPartner
                 /\ outbox'[c] = Append(outbox[c], WaitingMsg)
                 /\ pcRef'[c] = 0
                 /\ pcRef[c] # 0 => pcs'[c][pcRef[c]].sig = "closed"]_vars

\* the Idle state of a client: no search, no partner, no peer connection
\* referenced, no local capture
Idle(c) ==
    /\ ~isMatching[c]
    /\ partnerId[c] = NoPartner
    /\ pcRef[c] = 0
    /\ ~localStream[c]

\* C18: end is a full teardown with no re-enqueue: after endChat the client is
\* Idle (no partner, no peer connection, the one it had closed, local capture
\* stopped) and has emitted nothing; and an Idle client stays Idle, with no
\* peer connection created, until the user starts a new search, that is it
\* leaves Idle by a successful startChat only.
C18_EndIsFullTeardown ==
    [][\A c \in Clients :
          /\ EndChat(c)
                => /\ Idle(c)'
                   /\ outbox'[c] = outbox[c]
                   /\ pcRef[c] # 0 => pcs'[c][pcRef[c]].sig = "closed"
          /\ (Idle(c) /\ ~Idle(c)')
                => /\ StartChat(c, TRUE)
                   /\ pcs'[c] = pcs[c]]_vars

\* C19: a report by a client that has a partner emits exactly one report
\* message naming that partner and then does what skip does: the peer
\* connection is closed and no longer referenced, the partner id is cleared and
\* one waiting message follows the report. A report by a client without a
\* partner is no step at all (reportUser returns at once).
C19_ReportThenSkip ==
    [][\A c \in Clients :
          /\ (ReportUser(c) /\ partnerId[c] # NoPartner)
                => /\ outbox'[c] = outbox[c] \o
                                      <<Msg("report", partnerId[c], NoCand), WaitingMsg>>
                   /\ partnerId'[c] = NoPartner
                   /\ pcRef'[c] = 0
                   /\ pcRef[c] # 0 => pcs'[c][pcRef[c]].sig = "closed"
          /\ (ReportUser(c) /\ partnerId[c] = NoPartner)
                => UNCHANGED chatVars]_vars

\* a step of client c in which applying the message at the head of its inbox
\* fails: setRemoteDescription(offer) on a peer connection that is not stable,
\* setRemoteDescription(answer) on one with no local offer pending, or
\* addIceCandidate on one without a remote description
NegotiationFails(c) ==
    /\ pcRef[c] # 0
    /\ LET pc == pcs[c][pcRef[c]]
       IN \/ HandleOffer(c, FALSE) /\ pc.sig # "stable"
          \/ HandleAnswer(c) /\ pc.sig # "have-local-offer"
          \/ HandleIceCandidate(c) /\ ~pc.remote

\* C20: a negotiation error (an offer, answer or candidate that cannot be
\* applied because it is late or arrives before the transport is ready) forces
\* the session to Idle: after the failing handler the client holds no partner
\* id and references no peer connection.
C20_NegotiationErrorForcesIdle ==
    [][\A c \in Clients :
          NegotiationFails(c)
              => /\ partnerId'[c] = NoPartner
                 /\ pcRef'[c] = 0]_vars

\* C21: createRoom fails closed: whichever of its three inserts fails, after
\* the call the room, its room_activity row and the host's room_participants
\* row all exist or none of them does.
C21_CreateRoomAllOrNothing ==
    [][\A u \in Users, pw \in Passwords,
          fail \in {"none", "room", "activity", "participant"} :
          CreateRoom(u, pw, fail)
              => \A r \in FreshRoomIds :
                    /\ (rooms'[r].status # "none") = activity'[r].present
                    /\ (rooms'[r].status # "none") = (parts'[r][u] # "none")]_vars

\* C22: a change notification on table rooms triggers a fresh read: after the
\* rooms_channel callback has run, the panel's list is the stored rooms
\* (delivering the notification again then leaves the same list).
C22_NotificationRefetches ==
    [][\A u \in Users :
          OnRoomsChange(u)
              => panel'[u] = [r \in RoomIds |-> rooms[r].status]]_vars

\* both descriptions of the peer connection client c references are set
Negotiated(c) ==
    /\ pcRef[c] # 0
    /\ pcs[c][pcRef[c]].local
    /\ pcs[c][pcRef[c]].remote

Enqueued(c) ==
    \/ \E i \in 1..Len(outbox[c]) : outbox[c][i].type = "waiting"
    \/ \E i \in 1..Len(pool) : pool[i] = c
    \/ inbox[c] # <<>>

\* C24: a capture error never enqueues the client: a client is enqueued only
\* with its local media captured; a startChat or startSearching whose capture
\* succeeded emits exactly one waiting message and one whose capture failed
\* emits nothing; and a room page set-up whose capture failed writes no room,
\* activity or participant row.
C24_CaptureErrorNeverEnqueues ==
    /\ [](\A c \in Clients : Enqueued(c) => localStream[c])
    /\ [][\A c \in Clients :
            /\ (StartChat(c, TRUE) \/ StartSearching(c, TRUE))
                  => outbox'[c] = Append(outbox[c], WaitingMsg)
            /\ (StartChat(c, FALSE) \/ StartSearching(c, FALSE))
                  => outbox' = outbox]_vars
    /\ [][\A u \in Users, r \in RoomIds, fresh \in BOOLEAN :
            PageJoinRoom(u, r, fresh, FALSE)
               => UNCHANGED <<rooms, activity, parts>>]_vars

\* C24 witness: a user without a capture is on the page of a room it has a
\* participant row of, and a client is enqueued
C24_Witness ==
    /\ \E u \in Users :
          /\ page[u].room # 0
          /\ page[u].participants = <<>>
          /\ parts[page[u].room][u] # "none"
    /\ \E c \in Clients : Enqueued(c)

\* C25: the sweep ends no room that satisfies neither expiry predicate:
\* whenever a sweep sets a room to ended, that room was waiting or active, and
\* its age was at least 10 minutes or it had at most one joined participant
\* and at least 5 minutes had passed since last_active (since its creation
\* when it has no activity row).
C25_SweepEndsOnlyExpiredRooms ==
    [][\A u \in Users :
          SweepWrite(u)
              => LET r == Head(sweep[u].todo)
                 IN /\ rooms[r].status \in {"waiting", "active"}
                    /\ \/ clock - rooms[r].created_at >= AbsoluteAgeMinutes
                       \/ /\ JoinedCount(r) <= 1
                          /\ clock - LastActiveTime(r) >= IdleMinutes]_vars

\* C26: kick fails closed: when the update that sets the participant to
\* kicked fails, the host's local participant list is left as it was.
C26_KickFailsClosed ==
    [][\A u \in Users, t \in ParticipantIds :
          HandleKickParticipant(u, t, FALSE)
              => page'[u].participants = page[u].participants]_vars

\* C27: kicked is final: once a participant's row of a room has status
\* kicked, no step (a panel join, an accepted invite, an opened room page or a
\* markAsBusy of that participant) gives the row another status.
C27_KickedStaysKicked ==
    [][\A r \in RoomIds, u \in Users :
          parts[r][u] = "kicked" => parts'[r][u] = "kicked"]_vars

\* C28: in a room with a password, the participant row of a user who is not
\* the host becomes joined only by a join from the rooms panel in which the
\* password given is the room's password.
C28_JoinedOnlyWithPassword ==
    [][\A r \in RoomIds, u \in Users :
          (/\ rooms'[r].password # NoPassword
           /\ u # rooms'[r].host
           /\ parts[r][u] # "joined"
           /\ parts'[r][u] = "joined")
              => PanelJoinRoom(u, r, rooms[r].password)]_vars

\* C29: the card and the sweep agree: for every waiting or active room, from
\* the same clock, participant count and last_active, getExpirationStatus
\* reports the room as expired exactly when cleanupExpiredRooms sets it to
\* ended, and it gives the absolute-age reason whenever both predicates hold.
C29_CardAgreesWithSweep ==
    \A r \in RoomIds :
        Live(r) =>
            /\ (CardStatus(r) \in {"Expired (>10min)", "Expired (inactive)"})
                  <=> SweepEnds(r)
            /\ (/\ clock - rooms[r].created_at >= AbsoluteAgeMinutes
                /\ JoinedCount(r) <= 1
                /\ clock - LastActiveTime(r) >= IdleMinutes)
                  => CardStatus(r) = "Expired (>10min)"

\* the peer connections of client c that have not been closed
OpenPCs(c) == {i \in 1..Len(pcs[c]) : pcs[c][i].sig # "closed"}

\* C30: a client holds at most one peer connection that has not been closed,
\* and none when it is back in Idle.
C30_AtMostOneOpenPC ==
    \A c \in Clients :
        /\ Cardinality(OpenPCs(c)) <= 1
        /\ Idle(c) => OpenPCs(c) = {}

====
